---- MODULE Spec2Model ----
(***************************************************************************)
(* Model of nestjs-mongo-migrations: MigrationsService (registration,      *)
(* claim-and-run of one-shot and recurring migrations, timers, cron jobs,  *)
(* the initAndMaybeRun driver) over a MongoDB collection shared by several *)
(* application processes.                                                  *)
(*                                                                         *)
(* Every store operation (findOne, create, updateOne, save, find) is one   *)
(* atomic step; the code between two store operations of one async call    *)
(* chain belongs to the step of the operation that precedes it.            *)
(***************************************************************************)
EXTENDS Integers, Sequences, FiniteSets, TLC

\* Application processes sharing the migrations collection, and migration keys.
Procs == {"p1", "p2"}
Keys == {"a", "b", "c"}

\* Bounds of the exploration.
MaxInits == 2
MaxTicks == 1
MaxTime == 1
MaxCrashes == 1

\* Time is counted in seconds. The longest delay setTimeout takes is
\* 2 ** 31 - 1 milliseconds: 2147483 whole seconds.
TimerCap == 2147483

\* The instants the clock is observed at, in turn: one longest delay apart.
Instant(i) == i * TimerCap

(***************************************************************************)
(* JavaScript objects are functions from property names to values; a       *)
(* property that is undefined is one that is not in the domain.            *)
(***************************************************************************)

Has(obj, f) == f \in DOMAIN obj

\* obj?.f ?? d
OrElse(obj, f, d) == IF Has(obj, f) THEN obj[f] ELSE d

\* The own properties of obj among fs.
Pick(obj, fs) == [f \in DOMAIN obj \cap fs |-> obj[f]]

(***************************************************************************)
(* The document schema and Mongoose's handling of it.                      *)
(***************************************************************************)

\* The paths MigrationClass declares. There is no retryOnFail and no runCount.
SchemaPaths ==
  {"key", "serviceName", "methodName", "status", "order", "description",
   "runOnInit", "retryOnError", "runOnce", "lastRunAt", "error", "schedule"}

\* The @Prop defaults Mongoose applies when a document is created.
SchemaDefaults ==
  [status |-> "pending", runOnInit |-> TRUE, retryOnError |-> TRUE,
   runOnce |-> TRUE]

\* Strict mode: a path the schema does not declare is dropped from the data
\* handed to create() or to an update operator.
CastToSchema(obj) == Pick(obj, SchemaPaths)

\* Model.create(obj): the cast object over the schema defaults.
NewDocument(obj) == CastToSchema(obj) @@ SchemaDefaults

\* updateOne(filter, {$set: set}) applied to the matched document.
ApplySet(doc, set) == CastToSchema(set) @@ doc

\* updateOne(filter, {$inc: inc}) applied to the matched document: a path
\* the document does not hold yet counts as 0.
ApplyInc(doc, inc) ==
  LET c == CastToSchema(inc)
  IN  [f \in DOMAIN doc \cup DOMAIN c |->
         IF Has(c, f) THEN OrElse(doc, f, 0) + c[f] ELSE doc[f]]

\* runCount as a reader of the document sees it, 0 while it is not stored.
RunCount(doc) == OrElse(doc, "runCount", 0)

(***************************************************************************)
(* Descriptors: the options object the @Migration decorator attaches.      *)
(***************************************************************************)

\* Migration(options): the metadata the decorator stores on the method.
Migration(options) ==
  Pick(options, {"key", "description", "runOnInit", "schedule", "shouldRun"})
    @@ [order |-> OrElse(options, "order", 0),
        runOnce |-> OrElse(options, "runOnce", TRUE),
        retryOnFail |-> OrElse(options, "retryOnFail", TRUE)]

\* The object insertOrUpdate writes: upper-level defaults, and a schedule
\* object holding the schedule's defined properties.
RegistrationPayload(key, serviceName, methodName, meta) ==
  Pick(meta, {"description"})
    @@ [key |-> key, serviceName |-> serviceName, methodName |-> methodName,
        order |-> OrElse(meta, "order", 0),
        runOnInit |-> OrElse(meta, "runOnInit", TRUE),
        runOnce |-> OrElse(meta, "runOnce", TRUE),
        retryOnFail |-> OrElse(meta, "retryOnFail", TRUE),
        schedule |-> Pick(OrElse(meta, "schedule", <<>>), {"at", "cron", "timezone"})]

\* The filter of the driver's find(): runOnInit, and pending, or failed with
\* retryOnError, or not runOnce.
EligibleNoRetry(doc) ==
  /\ Has(doc, "runOnInit") /\ doc.runOnInit
  /\ \/ doc.status = "pending"
     \/ Has(doc, "runOnce") /\ ~doc.runOnce
EligibleAnyStatus(doc) == Has(doc, "runOnInit") /\ doc.runOnInit
EligibleOnlyUnapplied(doc) ==
  /\ Has(doc, "runOnInit") /\ doc.runOnInit
  /\ \/ doc.status = "pending"
     \/ doc.status = "failed" /\ Has(doc, "retryOnError") /\ doc.retryOnError
EligibleAnyRunOnInit(doc) ==
  \/ doc.status = "pending"
  \/ doc.status = "failed" /\ Has(doc, "retryOnError") /\ doc.retryOnError
  \/ Has(doc, "runOnce") /\ ~doc.runOnce
Eligible(doc) ==
  /\ Has(doc, "runOnInit") /\ doc.runOnInit
  /\ \/ doc.status = "pending"
     \/ doc.status = "failed" /\ Has(doc, "retryOnError") /\ doc.retryOnError
     \/ Has(doc, "runOnce") /\ ~doc.runOnce

\* The filter of runOne's and runRecurring's findOne: any status but running.
ClaimableOnlyPending(doc) == doc.status = "pending"
ClaimableAlways(doc) == TRUE
Claimable(doc) == doc.status # "running"

\* The sequences without repetition over a set.
RECURSIVE Perms(_)
Perms(S) ==
  IF S = {} THEN {<<>>}
  ELSE UNION {{<<x>> \o s : s \in Perms(S \ {x})} : x \in S}

\* sort({order: 1}): ascending order; documents of equal order come in an
\* order the store chooses.
Unsorted(docs, ks) == Perms(ks)
SortByOrder(docs, ks) ==
  {s \in Perms(ks) :
     \A i, j \in 1..Len(s) : i < j => docs[s[i]].order <= docs[s[j]].order}

(***************************************************************************)
(* Deployments: the units a build of the application declares (in          *)
(* discovery order) and whether @nestjs/schedule is installed. A scenario  *)
(* gives each running process its build.                                   *)
(***************************************************************************)

Unit(options, body) == [meta |-> Migration(options), body |-> body]

Either == {"ok", "boom"}

EveryMinute == [cron |-> "* * * * *"]
At(t) == [at |-> t]

InlineBuild ==
  [scheduling |-> TRUE, discovered |-> <<"b", "a">>,
   units |->
     [a |-> Unit([key |-> "a", order |-> 5, retryOnFail |-> FALSE], Either),
      b |-> Unit([key |-> "b", order |-> 10, shouldRun |-> FALSE], Either)]]

\* A later build: a moved behind b and documented, b no longer declared.
LaterBuild ==
  [scheduling |-> TRUE, discovered |-> <<"a">>,
   units |->
     [a |-> Unit([key |-> "a", order |-> 20, description |-> "backfill"], Either)]]

CronBuild ==
  [scheduling |-> TRUE, discovered |-> <<"c", "a">>,
   units |->
     [c |-> Unit([key |-> "c", order |-> 1, runOnce |-> FALSE, schedule |-> EveryMinute], Either),
      a |-> Unit([key |-> "a", order |-> 2], {"ok"})]]

AtBuild ==
  [scheduling |-> TRUE, discovered |-> <<"a", "b">>,
   units |->
     [a |-> Unit([key |-> "a", schedule |-> At(Instant(0))], Either),
      b |-> Unit([key |-> "b", schedule |-> At(Instant(1))], Either)]]

\* Two inline units of equal order, and a unit that is only registered.
TieBuild ==
  [scheduling |-> TRUE, discovered |-> <<"a", "b", "c">>,
   units |->
     [a |-> Unit([key |-> "a"], Either),
      b |-> Unit([key |-> "b"], Either),
      c |-> Unit([key |-> "c", runOnInit |-> FALSE, schedule |-> EveryMinute], Either)]]

\* @nestjs/schedule is not installed.
NoSchedulerBuild ==
  [scheduling |-> FALSE, discovered |-> <<"c", "b">>,
   units |->
     [c |-> Unit([key |-> "c", order |-> 1, runOnce |-> FALSE, schedule |-> EveryMinute], Either),
      b |-> Unit([key |-> "b", order |-> 2, schedule |-> At(Instant(1))], Either)]]

\* A cron expression the cron package cannot parse, before an inline unit.
BadCronBuild ==
  [scheduling |-> TRUE, discovered |-> <<"c", "a">>,
   units |->
     [c |-> Unit([key |-> "c", order |-> 1, runOnce |-> FALSE, schedule |-> [cron |-> "every minute"]], Either),
      a |-> Unit([key |-> "a", order |-> 2], {"ok"})]]

\* A time further away than the longest delay of a timer.
FarAtBuild ==
  [scheduling |-> TRUE, discovered |-> <<"b">>,
   units |->
     [b |-> Unit([key |-> "b", schedule |-> At(Instant(2))], {"ok"})]]

\* A unit that may run more than once and declares no schedule.
RepeatBuild ==
  [scheduling |-> TRUE, discovered |-> <<"a">>,
   units |->
     [a |-> Unit([key |-> "a", runOnce |-> FALSE], Either)]]

\* The module is configured with autoRunOnBootstrap: false.
ManualBuild == [autoRunOnBootstrap |-> FALSE] @@ InlineBuild

Scenarios ==
  << ("p1" :> InlineBuild) @@ ("p2" :> LaterBuild),
     ("p1" :> CronBuild),
     ("p1" :> AtBuild),
     ("p1" :> TieBuild),
     ("p1" :> NoSchedulerBuild),
     ("p1" :> BadCronBuild),
     ("p1" :> ManualBuild),
     ("p1" :> FarAtBuild),
     ("p1" :> RepeatBuild) >>

VARIABLES
  scenario,    \* the deployment under way (fixed)
  collection,  \* whether the migrations collection exists
  store,       \* the collection: key -> document
  clock,       \* Date.now() is Instant(clock)
  drv,         \* per process: the state of its initAndMaybeRun call
  tasks,       \* the runOne and runRecurring calls nobody awaits (a bag)
  timers,      \* per process: the timeouts armed
  timeouts,    \* per process: SchedulerRegistry's timeouts, name -> timer
  cronJobs,    \* per process: key -> the cron jobs started
  cronNames,   \* per process: SchedulerRegistry's cron job names
  ticks,       \* cron triggers so far
  ran          \* per process: the runs its current call awaited, in turn

vars ==
  <<scenario, collection, store, clock, drv, tasks, timers, timeouts, cronJobs,
    cronNames, ticks, ran>>

\* process -> its build, for the processes of the deployment.
app == Scenarios[scenario]

now == Instant(clock)

IdleDriver ==
  [pc |-> "idle", inits |-> 0, idx |-> 0, found |-> FALSE, snap |-> <<>>,
   key |-> "", path |-> "", result |-> "none"]

\* A process that is not up: before its start, or after it was killed.
\* inits and crashes count over the process's restarts.
Down(inits, crashes) ==
  [IdleDriver EXCEPT !.pc = "off", !.inits = inits] @@ [crashes |-> crashes]

Init ==
  /\ scenario \in DOMAIN Scenarios
  /\ collection = FALSE
  /\ store = <<>>
  /\ clock = 0
  /\ drv = [p \in Procs |-> Down(0, 0)]
  /\ tasks = <<>>
  /\ timers = [p \in Procs |-> {}]
  /\ timeouts = [p \in Procs |-> <<>>]
  /\ cronJobs = [p \in Procs |-> [k \in Keys |-> 0]]
  /\ cronNames = [p \in Procs |-> {}]
  /\ ticks = 0
  /\ ran = [p \in Procs |-> <<>>]

MethodKey(a, m) == OrElse(a.units[m].meta, "key", m)

\* allMethods of discoverAndRegister: the keys found, in discovery order.
AllMethods(a) == [i \in 1..Len(a.discovered) |-> MethodKey(a, a.discovered[i])]
MethodOf(a, k) == CHOOSE m \in DOMAIN a.units : MethodKey(a, m) = k
HasMethodAny(a, k) == TRUE
HasMethod(a, k) == \E m \in DOMAIN a.units : MethodKey(a, m) = k
MetaOf(a, k) == a.units[MethodOf(a, k)].meta

\* What the body of key k can do.
BodyOf(a, k) == a.units[MethodOf(a, k)].body

(***************************************************************************)
(* The store operations of insertOrUpdate, runOne and runRecurring.        *)
(***************************************************************************)

\* create({...payload, status: "pending"}) of a new document, which gets
\* an _id of its own.
CreateRecord(docs, k, payload, id) ==
  (k :> (("_id" :> id) @@ NewDocument(payload @@ [status |-> "pending"]))) @@ docs

\* The unique index on key: an insert of a key the collection holds fails
\* with a duplicate key error.
NoUniqueIndex(docs, k) == FALSE
DuplicateKey(docs, k) == k \in DOMAIN docs

\* updateOne({key}, {...payload}) of the document found.
UpdateRecord(docs, k, payload) == [docs EXCEPT ![k] = ApplySet(@, payload)]

\* isAlreadyRunning.status = "running"; .error = ""; await save().
ClaimRecordReordering(docs, k) ==
  [docs EXCEPT ![k] = ApplySet(@, [status |-> "running", error |-> "", order |-> 0])]
ClaimRecord(docs, k) == [docs EXCEPT ![k] = ApplySet(@, [status |-> "running", error |-> ""])]

\* The updateOne after the body returned, on the one-shot path: error is
\* undefined in the $set, so it is not a property of it.
AppliedUpdate(docs, k, t) == [docs EXCEPT ![k] = ApplySet(@, [status |-> "applied", lastRunAt |-> t])]

\* The updateOne after the body returned, on the recurring path.
RecurredUpdate(docs, k, t) ==
  [docs EXCEPT ![k] = ApplyInc(ApplySet(@, [status |-> "pending", lastRunAt |-> t]), [runCount |-> 1])]

\* The updateOne after the body threw (err.stack holds the message).
FailedUpdateDropsError(docs, k, err) == [docs EXCEPT ![k] = ApplySet(@, [status |-> "failed"])]
FailedUpdate(docs, k, err) == [docs EXCEPT ![k] = ApplySet(@, [status |-> "failed", error |-> err])]

\* The updateOne that follows the body's outcome out on the given path.
OutcomeUpdate(docs, k, path, out, t) ==
  IF out # "ok" THEN FailedUpdate(docs, k, out)
  ELSE IF path = "one" THEN AppliedUpdate(docs, k, t)
  ELSE RecurredUpdate(docs, k, t)

\* findOne({key, status: {$ne: "running"}}) finds a document.
FindsClaimable(docs, k) == k \in DOMAIN docs /\ Claimable(docs[k])

(***************************************************************************)
(* initAndMaybeRun: ensureCollectionExists and discoverAndRegister.        *)
(***************************************************************************)

\* opts.autoRunOnBootstrap === false is the only value that turns the
\* automatic run off.
AutoRunAlways(a) == TRUE
AutoRun(a) == OrElse(a, "autoRunOnBootstrap", TRUE)

\* onApplicationBootstrap of a process that starts (or restarts): it calls
\* initAndMaybeRun unless autoRunOnBootstrap is false.
Bootstrap(p) ==
  /\ p \in DOMAIN app
  /\ drv[p].pc = "off"
  /\ drv[p].inits < MaxInits
  /\ IF AutoRun(app[p])
       THEN /\ collection' = TRUE
            /\ drv' = [drv EXCEPT ![p] =
                 [@ EXCEPT !.pc = IF Len(AllMethods(app[p])) = 0 THEN "query" ELSE "regFind",
                           !.inits = @ + 1, !.idx = 1, !.result = "none"]]
       ELSE /\ collection' = collection
            /\ drv' = [drv EXCEPT ![p] = [@ EXCEPT !.pc = "idle"]]
  /\ UNCHANGED <<scenario, store, clock, tasks, timers, timeouts, cronJobs, cronNames, ticks, ran>>

\* A call of initAndMaybeRun by the application, once the process is up.
\* The call starts: ensureCollectionExists, then the first findOne is due.
InitStart(p) ==
  /\ p \in DOMAIN app
  /\ drv[p].pc = "idle"
  /\ drv[p].inits < MaxInits
  /\ collection' = TRUE
  /\ drv' = [drv EXCEPT ![p] =
       [@ EXCEPT !.pc = IF Len(AllMethods(app[p])) = 0 THEN "query" ELSE "regFind",
                 !.inits = @ + 1, !.idx = 1, !.result = "none"]]
  /\ ran' = [ran EXCEPT ![p] = <<>>]
  /\ UNCHANGED <<scenario, store, clock, tasks, timers, timeouts, cronJobs, cronNames, ticks>>

\* insertOrUpdate: const alreadyFound = await findOne({key}).
RegFind(p) ==
  /\ drv[p].pc = "regFind"
  /\ drv' = [drv EXCEPT ![p] =
       [@ EXCEPT !.pc = "regWrite",
                 !.found = AllMethods(app[p])[drv[p].idx] \in DOMAIN store]]
  /\ UNCHANGED <<scenario, collection, store, clock, tasks, timers, timeouts, cronJobs, cronNames, ticks, ran>>

\* The driver's state after insertOrUpdate resolved.
Registered(d, n) ==
  IF d.idx < n
    THEN [d EXCEPT !.pc = "regFind", !.idx = @ + 1]
    ELSE [d EXCEPT !.pc = "query"]

\* The driver's state when the call rejects.
Rejected(d) ==
  [d EXCEPT !.pc = "idle", !.result = "rejected", !.snap = <<>>, !.key = "", !.path = ""]

\* insertOrUpdate: create when findOne found nothing, updateOne otherwise.
\* The unique index on key rejects the create of a key that exists by now.
RegWrite(p) ==
  /\ drv[p].pc = "regWrite"
  /\ LET k == AllMethods(app[p])[drv[p].idx]
         n == Len(AllMethods(app[p]))
         payload == RegistrationPayload(k, "Service", MethodOf(app[p], k), MetaOf(app[p], k))
     IN  IF drv[p].found
           THEN /\ store' = UpdateRecord(store, k, payload)
                /\ drv' = [drv EXCEPT ![p] = Registered(@, n)]
           ELSE IF DuplicateKey(store, k)
             THEN /\ store' = store
                  /\ drv' = [drv EXCEPT ![p] = Rejected(@)]
             ELSE /\ store' = CreateRecord(store, k, payload, <<p, drv[p].inits>>)
                  /\ drv' = [drv EXCEPT ![p] = Registered(@, n)]
  /\ UNCHANGED <<scenario, collection, clock, tasks, timers, timeouts, cronJobs, cronNames, ticks, ran>>

(***************************************************************************)
(* initAndMaybeRun: the loop over the cursor.                              *)
(***************************************************************************)

\* The document the cursor yields for key k.
Mig(docs, k) ==
  [key |-> k, methodName |-> docs[k].methodName, order |-> docs[k].order,
   schedule |-> docs[k].schedule]

\* find(filter).sort({order: 1}).cursor(): the documents matching now.
Query(p) ==
  /\ drv[p].pc = "query"
  /\ \E s \in SortByOrder(store, {k \in DOMAIN store : Eligible(store[k])}) :
       drv' = [drv EXCEPT ![p] =
         [@ EXCEPT !.pc = "loop", !.snap = [i \in 1..Len(s) |-> Mig(store, s[i])]]]
  /\ UNCHANGED <<scenario, collection, store, clock, tasks, timers, timeouts, cronJobs, cronNames, ticks, ran>>

\* The driver's state when the loop goes on to the next document.
Continue(d) == [d EXCEPT !.pc = "loop", !.snap = Tail(@), !.key = "", !.path = ""]

\* The driver's state after the findOne of the runOne or runRecurring it awaits.
Awaiting(d, k, path, docs) ==
  IF FindsClaimable(docs, k)
    THEN [d EXCEPT !.pc = "claim", !.key = k, !.path = path]
    ELSE Continue(d)

\* The next document's key has no method in this process: continue.
DispatchVanished(p) ==
  /\ drv[p].pc = "loop"
  /\ drv[p].snap # <<>>
  /\ ~HasMethod(app[p], Head(drv[p].snap).key)
  /\ drv' = [drv EXCEPT ![p] = Continue(@)]
  /\ UNCHANGED <<scenario, collection, store, clock, tasks, timers, timeouts, cronJobs, cronNames, ticks, ran>>

\* The next document has no schedule: await runOne, whose findOne this is.
DispatchInline(p) ==
  /\ drv[p].pc = "loop"
  /\ drv[p].snap # <<>>
  /\ LET mig == Head(drv[p].snap)
     IN  /\ HasMethod(app[p], mig.key)
         /\ ~Has(mig.schedule, "cron")
         /\ ~Has(mig.schedule, "at")
         /\ drv' = [drv EXCEPT ![p] = Awaiting(@, mig.key, "one", store)]
  /\ UNCHANGED <<scenario, collection, store, clock, tasks, timers, timeouts, cronJobs, cronNames, ticks, ran>>

(***************************************************************************)
(* The calls nobody awaits: a bag of [proc, key, kind, pc]. kind is void   *)
(* (scheduleAt's void runOne), timer (a timeout's callback) or cron (a     *)
(* cron job's onTick); pc is read (findOne is due), claim (save is due) or *)
(* body (the body runs).                                                   *)
(***************************************************************************)

Task(p, k, kind, pc) == [proc |-> p, key |-> k, kind |-> kind, pc |-> pc]

AddTask(bag, t) ==
  IF t \in DOMAIN bag THEN [bag EXCEPT ![t] = @ + 1] ELSE (t :> 1) @@ bag

DelTask(bag, t) ==
  IF bag[t] > 1 THEN [bag EXCEPT ![t] = @ - 1]
  ELSE [u \in DOMAIN bag \ {t} |-> bag[u]]

MoveTask(bag, t, pc) == AddTask(DelTask(bag, t), [t EXCEPT !.pc = pc])

\* runOne for a timeout or a void call, runRecurring for a cron job.
PathOf(kind) == IF kind = "cron" THEN "rec" ELSE "one"

\* new CronJob(expr, ...) throws on an expression it cannot parse.
ValidCron(expr) == expr \in {"* * * * *", "0 3 * * *"}

Min(x, y) == IF x <= y THEN x ELSE y

\* scheduleAt: a time that is not in the future is run at once.
OverdueNever(delay) == FALSE
OverdueAlways(delay) == TRUE
Overdue(delay) == delay <= 0

\* The next document has schedule.cron: scheduleCron, then await
\* runRecurring, whose findOne this is. addCronJob throws on a name the
\* registry holds, after job.start().
DispatchCron(p) ==
  /\ drv[p].pc = "loop"
  /\ drv[p].snap # <<>>
  /\ LET mig == Head(drv[p].snap)
         k == mig.key
     IN  /\ HasMethod(app[p], k)
         /\ Has(mig.schedule, "cron")
         /\ IF ~app[p].scheduling
              THEN /\ drv' = [drv EXCEPT ![p] = Awaiting(@, k, "rec", store)]
                   /\ UNCHANGED <<cronJobs, cronNames>>
              ELSE IF ~ValidCron(mig.schedule.cron)
                THEN /\ drv' = [drv EXCEPT ![p] = Rejected(@)]
                     /\ UNCHANGED <<cronJobs, cronNames>>
                ELSE /\ cronJobs' = [cronJobs EXCEPT ![p][k] = @ + 1]
                     /\ IF k \in cronNames[p]
                          THEN /\ drv' = [drv EXCEPT ![p] = Rejected(@)]
                               /\ UNCHANGED cronNames
                          ELSE /\ drv' = [drv EXCEPT ![p] = Awaiting(@, k, "rec", store)]
                               /\ cronNames' = [cronNames EXCEPT ![p] = @ \cup {k}]
  /\ UNCHANGED <<scenario, collection, store, clock, tasks, timers, timeouts, ticks, ran>>

\* The next document has schedule.at and no schedule.cron: scheduleAt, not
\* awaited. An overdue time, or no scheduler: void runOne. Otherwise
\* setTimeout, then addTimeout, which throws on a name the registry holds.
DispatchAt(p) ==
  /\ drv[p].pc = "loop"
  /\ drv[p].snap # <<>>
  /\ LET mig == Head(drv[p].snap)
         k == mig.key
         delay == mig.schedule.at - now
         ref == [key |-> k, id |-> drv[p].inits, fireAt |-> now + Min(delay, TimerCap)]
     IN  /\ HasMethod(app[p], k)
         /\ ~Has(mig.schedule, "cron")
         /\ Has(mig.schedule, "at")
         /\ IF ~app[p].scheduling \/ Overdue(delay)
              THEN /\ tasks' = AddTask(tasks, Task(p, k, "void", "read"))
                   /\ drv' = [drv EXCEPT ![p] = Continue(@)]
                   /\ UNCHANGED <<timers, timeouts>>
              ELSE /\ timers' = [timers EXCEPT ![p] = @ \cup {ref}]
                   /\ tasks' = tasks
                   /\ IF k \in DOMAIN timeouts[p]
                        THEN /\ drv' = [drv EXCEPT ![p] = Rejected(@)]
                             /\ UNCHANGED timeouts
                        ELSE /\ drv' = [drv EXCEPT ![p] = Continue(@)]
                             /\ timeouts' = [timeouts EXCEPT ![p] = (k :> ref.id) @@ @]
  /\ UNCHANGED <<scenario, collection, store, clock, cronJobs, cronNames, ticks, ran>>

\* The log entry of a run the driver awaits: the document dispatched, the
\* path taken and the body's outcome ("" while it runs).
Started(mig, path) == [key |-> mig.key, order |-> mig.order, path |-> path, outcome |-> ""]

\* The driver's call of runOne or runRecurring saves the claim and invokes
\* the body.
DriverClaim(p) ==
  /\ drv[p].pc = "claim"
  /\ store' = ClaimRecord(store, drv[p].key)
  /\ drv' = [drv EXCEPT ![p] = [@ EXCEPT !.pc = "body"]]
  /\ ran' = [ran EXCEPT ![p] = Append(@, Started(Head(drv[p].snap), drv[p].path))]
  /\ UNCHANGED <<scenario, collection, clock, tasks, timers, timeouts, cronJobs, cronNames, ticks>>

\* The body invoked by the driver's call returns or throws, and the outcome
\* is written: runOne rethrows, runRecurring does not.
DriverFinish(p) ==
  /\ drv[p].pc = "body"
  /\ \E out \in BodyOf(app[p], drv[p].key) :
       /\ store' = OutcomeUpdate(store, drv[p].key, drv[p].path, out, now)
       /\ drv' = [drv EXCEPT ![p] =
            IF out # "ok" /\ drv[p].path = "one" THEN Rejected(@) ELSE Continue(@)]
       /\ ran' = [ran EXCEPT ![p][Len(ran[p])].outcome = out]
  /\ UNCHANGED <<scenario, collection, clock, tasks, timers, timeouts, cronJobs, cronNames, ticks>>

\* The cursor is exhausted: initAndMaybeRun resolves.
InitReturn(p) ==
  /\ drv[p].pc = "loop"
  /\ drv[p].snap = <<>>
  /\ drv' = [drv EXCEPT ![p] = [@ EXCEPT !.pc = "idle", !.result = "resolved"]]
  /\ UNCHANGED <<scenario, collection, store, clock, tasks, timers, timeouts, cronJobs, cronNames, ticks, ran>>

(***************************************************************************)
(* Timers, cron triggers and the calls they start.                         *)
(***************************************************************************)

\* A timeout's callback: deleteTimeout(name), which clears the timer the
\* registry holds under the name (none: it throws, and the throw is caught),
\* then runOne.
TimerFire(p, ref) ==
  /\ ref \in timers[p]
  /\ ref.fireAt <= now
  /\ LET held == {u \in timers[p] :
                    /\ u.key = ref.key
                    /\ ref.key \in DOMAIN timeouts[p]
                    /\ u.id = timeouts[p][ref.key]}
     IN  timers' = [timers EXCEPT ![p] = (@ \ {ref}) \ held]
  /\ timeouts' = [timeouts EXCEPT ![p] = [k \in DOMAIN @ \ {ref.key} |-> @[k]]]
  /\ tasks' = AddTask(tasks, Task(p, ref.key, "timer", "read"))
  /\ UNCHANGED <<scenario, collection, store, clock, drv, cronJobs, cronNames, ticks, ran>>

\* A started cron job triggers: runRecurring.
CronTick(p, k) ==
  /\ cronJobs[p][k] > 0
  /\ ticks < MaxTicks
  /\ ticks' = ticks + 1
  /\ tasks' = AddTask(tasks, Task(p, k, "cron", "read"))
  /\ UNCHANGED <<scenario, collection, store, clock, drv, timers, timeouts, cronJobs, cronNames, ran>>

\* findOne of a call nobody awaits: no document, and the call returns.
TaskRead(t) ==
  /\ t \in DOMAIN tasks
  /\ t.pc = "read"
  /\ tasks' = IF FindsClaimable(store, t.key) THEN MoveTask(tasks, t, "claim")
              ELSE DelTask(tasks, t)
  /\ UNCHANGED <<scenario, collection, store, clock, drv, timers, timeouts, cronJobs, cronNames, ticks, ran>>

\* save() of a call nobody awaits, and the body is invoked.
TaskClaim(t) ==
  /\ t \in DOMAIN tasks
  /\ t.pc = "claim"
  /\ store' = ClaimRecord(store, t.key)
  /\ tasks' = MoveTask(tasks, t, "body")
  /\ UNCHANGED <<scenario, collection, clock, drv, timers, timeouts, cronJobs, cronNames, ticks, ran>>

\* The body of a call nobody awaits returns or throws; the outcome is
\* written. What runOne rethrows here reaches no caller.
TaskFinish(t) ==
  /\ t \in DOMAIN tasks
  /\ t.pc = "body"
  /\ \E out \in BodyOf(app[t.proc], t.key) :
       store' = OutcomeUpdate(store, t.key, PathOf(t.kind), out, now)
  /\ tasks' = DelTask(tasks, t)
  /\ UNCHANGED <<scenario, collection, clock, drv, timers, timeouts, cronJobs, cronNames, ticks, ran>>

\* Process p has claimed a record and its body runs.
Executing(p) ==
  \/ drv[p].pc = "body"
  \/ \E t \in DOMAIN tasks : t.proc = p /\ t.pc = "body"

\* The process is killed while a body it invoked runs: its calls, timers and
\* cron jobs are gone with it, the collection stays as it is.
Crash(p) ==
  /\ Executing(p)
  /\ drv[p].crashes < MaxCrashes
  /\ drv' = [drv EXCEPT ![p] = Down(@.inits, @.crashes + 1)]
  /\ tasks' = [t \in {u \in DOMAIN tasks : u.proc # p} |-> tasks[t]]
  /\ timers' = [timers EXCEPT ![p] = {}]
  /\ timeouts' = [timeouts EXCEPT ![p] = <<>>]
  /\ cronJobs' = [cronJobs EXCEPT ![p] = [k \in Keys |-> 0]]
  /\ cronNames' = [cronNames EXCEPT ![p] = {}]
  /\ ran' = [ran EXCEPT ![p] = <<>>]
  /\ UNCHANGED <<scenario, collection, store, clock, ticks>>

\* Time passes.
Tick ==
  /\ clock < MaxTime
  /\ clock' = clock + 1
  /\ UNCHANGED <<scenario, collection, store, drv, tasks, timers, timeouts, cronJobs, cronNames, ticks, ran>>

Next ==
  \/ \E p \in Procs : Bootstrap(p)
  \/ \E p \in Procs : InitStart(p)
  \/ \E p \in Procs : RegFind(p)
  \/ \E p \in Procs : RegWrite(p)
  \/ \E p \in Procs : Query(p)
  \/ \E p \in Procs : DispatchVanished(p)
  \/ \E p \in Procs : DispatchInline(p)
  \/ \E p \in Procs : DispatchCron(p)
  \/ \E p \in Procs : DispatchAt(p)
  \/ \E p \in Procs : DriverClaim(p)
  \/ \E p \in Procs : DriverFinish(p)
  \/ \E p \in Procs : InitReturn(p)
  \/ \E p \in Procs : \E ref \in timers[p] : TimerFire(p, ref)
  \/ \E p \in Procs, k \in Keys : CronTick(p, k)
  \/ \E t \in DOMAIN tasks : TaskRead(t)
  \/ \E t \in DOMAIN tasks : TaskClaim(t)
  \/ \E t \in DOMAIN tasks : TaskFinish(t)
  \/ \E p \in Procs : Crash(p)
  \/ Tick

Spec == Init /\ [][Next]_vars

\* Node's event loop runs whatever is ready: a call that can start starts,
\* a pending store operation completes, a due timer fires, time passes.
FairSpec == Spec /\ WF_vars(Next)

(***************************************************************************)
(* State functions the properties below are stated with.                   *)
(***************************************************************************)

RECURSIVE Total(_, _)
Total(bag, ts) ==
  IF ts = {} THEN 0
  ELSE LET t == CHOOSE u \in ts : TRUE IN bag[t] + Total(bag, ts \ {t})

\* The bodies of key k in progress, in all processes.
Bodies(k) ==
  Cardinality({p \in Procs : drv[p].pc = "body" /\ drv[p].key = k})
    + Total(tasks, {t \in DOMAIN tasks : t.key = k /\ t.pc = "body"})

\* The step is process p's find() (the cursor is opened).
QueryStep(p) == drv[p].pc = "query" /\ drv'[p].pc = "loop"

\* The keys of the documents the cursor of p still holds.
SnapKeys(d) == {d.snap[i].key : i \in 1..Len(d.snap)}

\* The step is the end of the body the driver of p awaits, on the given
\* path and with the given outcome.
DriverFinishStep(p, path, out) ==
  /\ drv[p].pc = "body"
  /\ drv[p].path = path
  /\ Len(ran'[p]) = Len(ran[p])
  /\ ran'[p][Len(ran[p])].outcome = out

\* The retry flag a document stores, under the name the schema gives it.
RetryFlag(doc) == IF Has(doc, "retryOnFail") THEN doc.retryOnFail ELSE doc.retryOnError

\* Every build that declares k declares it with retryOnFail: false.
RetryDisabled(k) ==
  /\ \E p \in DOMAIN app : HasMethod(app[p], k)
  /\ \A p \in DOMAIN app : HasMethod(app[p], k) => ~MetaOf(app[p], k).retryOnFail

(***************************************************************************)
(* C1..C10                                                                 *)
(***************************************************************************)

\* C1: at most one claim. Of the callers that race to claim a record, one
\* invokes the body: no key ever has two bodies in progress.
C1_AtMostOneClaim == \A k \in Keys : Bodies(k) <= 1

\* C2: a runOnce unit runs at most once. While its record is applied, no
\* process starts its body.
C2_RunOnceAtMostOnce ==
  [][\A k \in DOMAIN store :
       store[k].status = "applied" /\ store[k].runOnce => Bodies(k)' <= Bodies(k)]_vars

\* The metadata of the document equal those of the descriptor registered.
MetadataOf(doc, meta) ==
  /\ doc.order = meta.order
  /\ Has(doc, "description") = Has(meta, "description")
  /\ Has(meta, "description") => doc.description = meta.description
  /\ doc.runOnce = meta.runOnce
  /\ RetryFlag(doc) = meta.retryOnFail
  /\ doc.runOnInit = OrElse(meta, "runOnInit", TRUE)
  /\ doc.schedule = Pick(OrElse(meta, "schedule", <<>>), {"at", "cron", "timezone"})

\* The ledger fields of two versions of a document are the same.
SameLedger(d, e) ==
  /\ d.status = e.status
  /\ Pick(d, {"lastRunAt", "error"}) = Pick(e, {"lastRunAt", "error"})
  /\ RunCount(d) = RunCount(e)

\* C3: idempotent registration. Every insertOrUpdate that resolves leaves
\* one document for the key, whose metadata are those of the descriptor
\* registered; on a key that had a document it changes neither status,
\* lastRunAt, error nor runCount.
C3_IdempotentRegistration ==
  [][\A p \in DOMAIN app :
       drv[p].pc = "regWrite" /\ drv'[p].pc # "regWrite" /\ drv'[p].result # "rejected" =>
         LET k == AllMethods(app[p])[drv[p].idx]
         IN  /\ k \in DOMAIN store'
             /\ MetadataOf(store'[k], MetaOf(app[p], k))
             /\ k \in DOMAIN store => SameLedger(store[k], store'[k])]_vars

\* The inline (one-shot path) entries of a driver's log.
Inline(log) == SelectSeq(log, LAMBDA e : e.path = "one")

\* C4: ordering within one driver invocation. The inline bodies of one
\* initAndMaybeRun call start in ascending order (the order the cursor's
\* documents carry), each after the one before it has ended and its
\* outcome was written.
C4_OrderWithinInvocation ==
  \A p \in Procs :
    LET log == Inline(ran[p])
    IN  \A i, j \in 1..Len(log) :
          i < j => log[i].order <= log[j].order /\ log[i].outcome # ""

C4_Witness ==
  \E p \in Procs :
    /\ Len(ran[p]) = 2
    /\ ran[p][1].order < ran[p][2].order
    /\ ran[p][1].path = "one" /\ ran[p][2].path = "one"
    /\ drv[p].pc = "body"

\* C5: retry disabled. A failed record of a unit declared with
\* retryOnFail: false stays failed, and no later find() of the driver
\* selects it.
C5_RetryDisabled ==
  [][\A k \in DOMAIN store :
       store[k].status = "failed" /\ RetryDisabled(k) =>
         /\ store'[k].status = "failed"
         /\ \A p \in Procs : QueryStep(p) => k \notin SnapKeys(drv'[p])]_vars

\* C6: retry enabled. A failed record of a one-shot unit that the process
\* declares with retryOnFail: true (and runOnInit) is selected by the find()
\* of its next initAndMaybeRun; when the loop reaches it and it is still
\* failed, it is claimed and the body invoked (unless the process is killed
\* first); and a body that returns leaves the record applied.
C6_RetryEnabled ==
  [][\A p \in DOMAIN app :
       /\ QueryStep(p) =>
            \A k \in DOMAIN store :
              (/\ store[k].status = "failed"
               /\ HasMethod(app[p], k)
               /\ MetaOf(app[p], k).retryOnFail
               /\ store[k].runOnInit) => k \in SnapKeys(drv'[p])
       /\ (/\ drv[p].pc = "loop" /\ drv[p].snap # <<>> /\ drv'[p] # drv[p]
           /\ drv'[p].pc # "off"
           /\ HasMethod(app[p], Head(drv[p].snap).key)
           /\ ~Has(Head(drv[p].snap).schedule, "cron")
           /\ ~Has(Head(drv[p].snap).schedule, "at")
           /\ Head(drv[p].snap).key \in DOMAIN store
           /\ store[Head(drv[p].snap).key].status = "failed") =>
            /\ drv'[p].pc = "claim"
            /\ drv'[p].key = Head(drv[p].snap).key
            /\ drv'[p].path = "one"
       /\ drv[p].pc = "claim" /\ drv'[p] # drv[p] /\ drv'[p].pc # "off" =>
            /\ drv'[p].pc = "body"
            /\ store'[drv[p].key].status = "running"
       /\ DriverFinishStep(p, "one", "ok") =>
            store'[drv[p].key].status = "applied"]_vars

\* A driver has found a failed record of a unit it declares with
\* retryOnFail: true, in a later call, and is about to claim it.
C6_Witness ==
  \E p \in DOMAIN app :
    /\ drv[p].pc = "claim"
    /\ drv[p].path = "one"
    /\ drv[p].inits > 1
    /\ store[drv[p].key].status = "failed"
    /\ MetaOf(app[p], drv[p].key).retryOnFail

\* C7: one-shot failure. When the body of an inline unit throws, the record
\* is failed with the error stored, initAndMaybeRun rejects, and the loop
\* is left: the failed run is the last of the call.
C7_OneShotFailure ==
  [][\A p \in Procs :
       DriverFinishStep(p, "one", "boom") =>
         /\ store'[drv[p].key].status = "failed"
         /\ store'[drv[p].key].error = "boom"
         /\ drv'[p].pc = "idle"
         /\ drv'[p].result = "rejected"
         /\ drv'[p].snap = <<>>]_vars

\* C7, the rejected call ran nothing after the run that threw.
C7_Witness ==
  \E p \in Procs :
    /\ drv[p].result = "rejected"
    /\ ran[p] # <<>>
    /\ ran[p][Len(ran[p])].outcome = "boom"
    /\ ran[p][Len(ran[p])].key = "a"
    /\ store["a"].status = "failed"
    /\ "b" \in DOMAIN store /\ store["b"].status = "pending"

\* The step ends a run on the recurring path of key k with a body that
\* returned: the driver's startup run, or a cron trigger's run.
RecurringSuccess(k) ==
  \/ \E p \in Procs : DriverFinishStep(p, "rec", "ok") /\ drv[p].key = k
  \/ /\ Bodies(k)' < Bodies(k)
     /\ \A p \in Procs : drv'[p] = drv[p]
     /\ \E t \in DOMAIN tasks : t.key = k /\ t.kind = "cron" /\ t.pc = "body"
     /\ store'[k].status # "failed"

\* C8: recurring reset. A successful run on the recurring path leaves the
\* record pending, sets lastRunAt and increments runCount by 1.
C8_RecurringReset ==
  [][\A k \in DOMAIN store :
       RecurringSuccess(k) =>
         /\ store'[k].status = "pending"
         /\ Has(store'[k], "lastRunAt") /\ store'[k].lastRunAt = now
         /\ RunCount(store'[k]) = RunCount(store[k]) + 1]_vars

\* C9: shouldRun skip. The driver claims no record and invokes no body of a
\* unit whose shouldRun predicate evaluates to false.
C9_ShouldRunSkip ==
  \A p \in DOMAIN app :
    drv[p].pc = "body" => OrElse(MetaOf(app[p], drv[p].key), "shouldRun", TRUE)

\* C10: recurring failure. When the body run on the recurring path throws,
\* the record is failed with the error stored, and the driver goes on to the
\* next document; a cron trigger's findOne on a failed record finds it, so
\* that the run claims it.
C10_RecurringFailure ==
  [][/\ \A p \in Procs :
          DriverFinishStep(p, "rec", "boom") =>
            /\ store'[drv[p].key].status = "failed"
            /\ store'[drv[p].key].error = "boom"
            /\ drv'[p].pc = "loop"
            /\ drv'[p].result = "none"
            /\ drv'[p].snap = Tail(drv[p].snap)
     /\ \A t \in DOMAIN tasks :
          (/\ t.kind = "cron" /\ t.pc = "read"
           /\ tasks' # tasks
           /\ t \notin DOMAIN tasks' \/ tasks'[t] < tasks[t]
           /\ drv'[t.proc].pc # "off"
           /\ t.key \in DOMAIN store /\ store[t.key].status = "failed") =>
            [t EXCEPT !.pc = "claim"] \in DOMAIN tasks']_vars

\* A startup run on the recurring path threw, the loop ran the next unit,
\* and a cron trigger's run has claimed the failed record again.
C10_Witness ==
  \E p \in Procs :
    /\ Len(ran[p]) = 2
    /\ ran[p][1].path = "rec" /\ ran[p][1].outcome = "boom"
    /\ ran[p][2].outcome = "ok"
    /\ Task(p, ran[p][1].key, "cron", "body") \in DOMAIN tasks

(***************************************************************************)
(* C11..C20                                                                *)
(***************************************************************************)

\* The first initAndMaybeRun of p has resolved, and no cron job has
\* triggered so far.
FirstCallResolved(p) ==
  /\ drv[p].pc = "idle"
  /\ drv[p].result = "resolved"
  /\ drv[p].inits = 1
  /\ ticks = 0

\* C11: cron startup run. When the only process's first initAndMaybeRun has
\* resolved, before any cron trigger, the record of every cron unit whose
\* startup run returned is pending, has lastRunAt set and runCount = 1.
C11_CronStartupRun ==
  \A p \in DOMAIN app :
    FirstCallResolved(p) /\ DOMAIN app = {p} =>
      \A i \in 1..Len(ran[p]) :
        ran[p][i].path = "rec" /\ ran[p][i].outcome = "ok" =>
          /\ store[ran[p][i].key].status = "pending"
          /\ Has(store[ran[p][i].key], "lastRunAt")
          /\ RunCount(store[ran[p][i].key]) = 1

\* The timers of process p armed for key k.
TimersOf(p, k) == {ref \in timers[p] : ref.key = k}

\* The last run the current call of p awaited ended with a throwing body.
BodyFailed(p) == ran[p] # <<>> /\ ran[p][Len(ran[p])].outcome = "boom"

\* Every cron expression the build declares can be parsed.
CronsParse(a) ==
  \A m \in DOMAIN a.units :
    Has(a.units[m].meta, "schedule") /\ Has(a.units[m].meta.schedule, "cron") =>
      ValidCron(a.units[m].meta.schedule.cron)

\* C12: manual trigger is idempotent. In a deployment of one process whose
\* cron expressions parse, a call of initAndMaybeRun rejects only when a
\* body failed, and no key ever has more than one started cron job or more
\* than one armed timer.
C12_ManualTriggerIdempotent ==
  \A p \in DOMAIN app :
    DOMAIN app = {p} /\ CronsParse(app[p]) =>
      /\ drv[p].result = "rejected" => BodyFailed(p)
      /\ \A k \in Keys :
           /\ cronJobs[p][k] <= 1
           /\ Cardinality(TimersOf(p, k)) <= 1

\* The record is one of an inline one-shot unit that was applied.
AppliedInline(doc) ==
  /\ doc.status = "applied"
  /\ doc.runOnce
  /\ ~Has(doc.schedule, "cron")
  /\ ~Has(doc.schedule, "at")

\* C13: restart idempotence in one process. In a deployment of one process,
\* the applied record of an inline one-shot unit stays applied, no find() of
\* a later initAndMaybeRun selects it, and its body is not invoked.
C13_RestartIdempotence ==
  [][\A p \in DOMAIN app :
       DOMAIN app = {p} =>
         \A k \in DOMAIN store :
           AppliedInline(store[k]) =>
             /\ store'[k].status = "applied"
             /\ QueryStep(p) => k \notin SnapKeys(drv'[p])
             /\ Bodies(k)' = 0]_vars

\* The second call of the only process resolved without running anything:
\* both inline units were applied by the first.
C13_Witness ==
  \E p \in DOMAIN app :
    /\ DOMAIN app = {p}
    /\ drv[p].inits = 2
    /\ drv[p].result = "resolved"
    /\ ran[p] = <<>>
    /\ {"a", "b"} \subseteq DOMAIN store
    /\ AppliedInline(store["a"]) /\ AppliedInline(store["b"])

\* Key k is declared, and every build that declares it says runOnInit: false.
NeverOnInit(k) ==
  /\ \E p \in DOMAIN app : HasMethod(app[p], k)
  /\ \A p \in DOMAIN app :
       HasMethod(app[p], k) =>
         Has(MetaOf(app[p], k), "runOnInit") /\ ~MetaOf(app[p], k).runOnInit

\* C14: runOnInit = false. The record of a unit registered with
\* runOnInit: false stays pending; no cursor holds it, no body of it runs,
\* and no timer, cron job or run outside the driver exists for it.
C14_RunOnInitFalse ==
  \A k \in DOMAIN store :
    NeverOnInit(k) =>
      /\ store[k].status = "pending"
      /\ ~store[k].runOnInit
      /\ Bodies(k) = 0
      /\ \A t \in DOMAIN tasks : t.key # k
      /\ \A p \in Procs :
           /\ k \notin SnapKeys(drv[p])
           /\ drv[p].key # k
           /\ cronJobs[p][k] = 0
           /\ TimersOf(p, k) = {}

\* Two calls resolved with the runOnInit: false unit registered, after the
\* other units of the build ran.
C14_Witness ==
  \E p \in DOMAIN app, k \in DOMAIN store :
    /\ NeverOnInit(k)
    /\ Has(store[k].schedule, "cron")
    /\ drv[p].inits = 2
    /\ drv[p].result = "resolved"
    /\ \E j \in DOMAIN store : store[j].status = "applied"

\* Process p declares key k with a cron schedule.
DeclaresCron(p, k) ==
  /\ HasMethod(app[p], k)
  /\ Has(MetaOf(app[p], k), "schedule")
  /\ Has(MetaOf(app[p], k).schedule, "cron")

\* C15: capability absence. In a process without scheduling support no
\* timer and no cron job is armed, the call does not reject, and a unit
\* with schedule.cron is skipped: its body is not invoked and its record
\* stays as registration left it.
C15_CapabilityAbsence ==
  \A p \in DOMAIN app :
    ~app[p].scheduling /\ DOMAIN app = {p} =>
      /\ timers[p] = {}
      /\ drv[p].result # "rejected"
      /\ \A k \in DOMAIN store :
           DeclaresCron(p, k) =>
             /\ cronJobs[p][k] = 0
             /\ Bodies(k) = 0
             /\ store[k].status = "pending"
             /\ ~Has(store[k], "lastRunAt")

\* C16: invalid cron expression. The dispatch of a document whose
\* schedule.cron cannot be parsed does not end the call: initAndMaybeRun
\* does not reject and the loop goes on.
C16_InvalidCron ==
  [][\A p \in DOMAIN app :
       (/\ drv[p].pc = "loop" /\ drv[p].snap # <<>> /\ drv'[p] # drv[p]
        /\ HasMethod(app[p], Head(drv[p].snap).key)
        /\ Has(Head(drv[p].snap).schedule, "cron")
        /\ ~ValidCron(Head(drv[p].snap).schedule.cron)) =>
         /\ drv'[p].result # "rejected"
         /\ drv'[p].pc # "idle"]_vars

\* The step ends an insertOrUpdate of process p (resolved or rejected).
RegWriteStep(p) == drv[p].pc = "regWrite" /\ drv'[p] # drv[p]

\* C17: one record per key. A record, once created, is there in every later
\* state, under its key and with the _id it was created with (it is neither
\* deleted nor created again), and every insertOrUpdate, whatever other
\* processes do, leaves a record for its key.
C17_OneRecordPerKey ==
  [][/\ \A k \in DOMAIN store :
          /\ k \in DOMAIN store'
          /\ store'[k].key = k
          /\ store'[k]["_id"] = store[k]["_id"]
     /\ \A p \in DOMAIN app :
          RegWriteStep(p) => AllMethods(app[p])[drv[p].idx] \in DOMAIN store']_vars

\* Two processes found no record of a key, and the create of the second
\* one met the record of the first.
C17_Witness ==
  \E p \in DOMAIN app :
    /\ drv[p].result = "rejected"
    /\ ran[p] = <<>>
    /\ ~drv[p].found
    /\ AllMethods(app[p])[drv[p].idx] \in DOMAIN store
    /\ store[AllMethods(app[p])[drv[p].idx]]["_id"][1] # p

\* C18: registration is safe across processes. Every insertOrUpdate
\* resolves, whatever other processes do to the key meanwhile: the call of
\* initAndMaybeRun goes on to the next descriptor or to its find().
C18_RegistrationSafe ==
  [][\A p \in DOMAIN app :
       RegWriteStep(p) =>
         /\ drv'[p].result # "rejected"
         /\ drv'[p].pc \in {"regFind", "query"}]_vars

\* The place of key k in the discovery order of build a.
DiscoveryIndex(a, k) == CHOOSE i \in 1..Len(AllMethods(a)) : AllMethods(a)[i] = k

\* C19: tie-breaking. Of two inline units of equal order that one call of
\* initAndMaybeRun runs, the one discovered first runs first.
C19_TieBreaking ==
  \A p \in DOMAIN app :
    LET log == Inline(ran[p])
    IN  \A i, j \in 1..Len(log) :
          i < j /\ log[i].order = log[j].order =>
            DiscoveryIndex(app[p], log[i].key) < DiscoveryIndex(app[p], log[j].key)

\* The record of key k is eligible and its body was never invoked, process p
\* declares k, and a whole call of initAndMaybeRun by p is still to come.
AwaitsExecution(p, k) ==
  /\ p \in DOMAIN app
  /\ HasMethod(app[p], k)
  /\ k \in DOMAIN store
  /\ Eligible(store[k])
  /\ store[k].status = "pending"
  /\ ~Has(store[k], "lastRunAt")
  /\ drv[p].pc = "idle"
  /\ drv[p].inits < MaxInits

\* The body of key k has been invoked: the record was claimed.
Invoked(k) ==
  /\ k \in DOMAIN store
  /\ store[k].status # "pending" \/ Has(store[k], "lastRunAt")

BootstrapStep(p) == drv[p].pc = "off" /\ drv'[p].pc # "off"

\* C21: auto-run switch. The bootstrap hook calls initAndMaybeRun unless
\* autoRunOnBootstrap is false; when it is false the hook starts no call
\* and leaves the collection, the records, and the timers, cron jobs and
\* runs of the process as they are.
C21_AutoRunSwitch ==
  [][\A p \in DOMAIN app :
       BootstrapStep(p) =>
         IF Has(app[p], "autoRunOnBootstrap") /\ app[p].autoRunOnBootstrap = FALSE
           THEN /\ drv'[p].pc = "idle"
                /\ drv'[p].inits = drv[p].inits
                /\ <<collection, store, tasks, timers, timeouts, cronJobs, cronNames>>'
                     = <<collection, store, tasks, timers, timeouts, cronJobs, cronNames>>
           ELSE /\ drv'[p].pc \in {"regFind", "query"}
                /\ drv'[p].inits = drv[p].inits + 1]_vars

\* A process configured with autoRunOnBootstrap: false is up, and nothing
\* was registered.
C21_Witness ==
  \E p \in DOMAIN app :
    /\ Has(app[p], "autoRunOnBootstrap") /\ ~app[p].autoRunOnBootstrap
    /\ drv[p].pc = "idle"
    /\ drv[p].inits = 0
    /\ store = <<>>
    /\ ~collection

\* C22: claim eligibility. A body of key k is invoked only off a record that
\* is pending, or failed with its retry flag set, or not runOnce and not
\* running.
C22_ClaimEligibility ==
  [][\A k \in DOMAIN store :
       Bodies(k)' > Bodies(k) =>
         \/ store[k].status = "pending"
         \/ store[k].status = "failed" /\ RetryFlag(store[k])
         \/ ~store[k].runOnce /\ store[k].status # "running"]_vars

\* C23: status state machine. Every change of a record's status is one of
\* pending -> running, running -> applied, running -> failed,
\* failed -> running (retry flag set), applied -> running (not runOnce),
\* running -> pending (not runOnce).
C23_StatusMachine ==
  [][\A k \in DOMAIN store :
       store'[k].status # store[k].status =>
         \/ <<store[k].status, store'[k].status>> \in
              {<<"pending", "running">>, <<"running", "applied">>, <<"running", "failed">>}
         \/ /\ <<store[k].status, store'[k].status>> = <<"failed", "running">>
            /\ RetryFlag(store[k])
         \/ /\ <<store[k].status, store'[k].status>> \in
                 {<<"applied", "running">>, <<"running", "pending">>}
            /\ ~store[k].runOnce]_vars

\* The error field of the document is cleared.
ErrorCleared(doc) == ~Has(doc, "error") \/ doc.error = ""

\* C24: one-shot success. When the body a driver's runOne invoked returns,
\* the record is applied with lastRunAt set and error cleared, and the call
\* goes on; and when the first call of a lone process that declares a with
\* order 5 and b with order 10 has resolved, it ran a, then b, and both
\* records are applied.
C24_OneShotSuccess ==
  [][\A p \in DOMAIN app :
       /\ DriverFinishStep(p, "one", "ok") =>
            /\ store'[drv[p].key].status = "applied"
            /\ Has(store'[drv[p].key], "lastRunAt")
            /\ store'[drv[p].key].lastRunAt = now
            /\ ErrorCleared(store'[drv[p].key])
            /\ drv'[p].pc = "loop"
            /\ drv'[p].result = "none"
       /\ (/\ DOMAIN app = {p}
           /\ AllMethods(app[p]) = <<"b", "a">>
           /\ drv[p].inits = 1 /\ drv[p].crashes = 0
           /\ drv'[p].result = "resolved") =>
            /\ [i \in 1..Len(ran[p]) |-> ran[p][i].key] = <<"a", "b">>
            /\ store["a"].status = "applied"
            /\ store["b"].status = "applied"]_vars

\* The findOne of runOne or runRecurring for key k finds nothing.
ClaimLost(k) == k \notin DOMAIN store \/ store[k].status = "running"

\* The step is one of the loop of process p on a document whose runOne or
\* runRecurring the loop awaits.
AwaitedDispatch(p) ==
  /\ drv[p].pc = "loop" /\ drv[p].snap # <<>>
  /\ drv'[p] # drv[p]
  /\ drv'[p].pc \notin {"off", "idle"}
  /\ HasMethod(app[p], Head(drv[p].snap).key)
  /\ Has(Head(drv[p].snap).schedule, "cron") \/ ~Has(Head(drv[p].snap).schedule, "at")

\* The step is the findOne of the call t, which nobody awaits.
TaskReadStep(t) ==
  /\ t \in DOMAIN tasks /\ t.pc = "read"
  /\ t \notin DOMAIN tasks' \/ tasks'[t] < tasks[t]
  /\ drv'[t.proc].pc # "off"

\* C25: claim-lost is a normal skip. A call of runOne or runRecurring whose
\* findOne meets a running record (or none) returns without error: no body
\* is invoked, the collection is unchanged, and the loop that awaited the
\* call goes on to the next document.
C25_ClaimLostSkip ==
  [][/\ \A p \in DOMAIN app, k \in Keys :
          AwaitedDispatch(p) /\ k = Head(drv[p].snap).key /\ ClaimLost(k) =>
            /\ drv'[p] = Continue(drv[p])
            /\ store' = store
            /\ ran' = ran
            /\ Bodies(k)' = Bodies(k)
     /\ \A t \in DOMAIN tasks :
          TaskReadStep(t) /\ ClaimLost(t.key) =>
            /\ store' = store
            /\ drv' = drv
            /\ Bodies(t.key)' = Bodies(t.key)
            /\ [t EXCEPT !.pc = "claim"] \notin DOMAIN tasks'
                 \/ ([t EXCEPT !.pc = "claim"] \in DOMAIN tasks
                      /\ tasks'[[t EXCEPT !.pc = "claim"]] = tasks[[t EXCEPT !.pc = "claim"]])]_vars

\* The loop of one process is at a document whose record another process
\* has claimed and whose body that process is running.
C25_Witness ==
  \E p, q \in DOMAIN app :
    /\ p # q
    /\ drv[p].pc = "loop" /\ drv[p].snap # <<>>
    /\ HasMethod(app[p], Head(drv[p].snap).key)
    /\ drv[q].pc = "body"
    /\ drv[q].key = Head(drv[p].snap).key
    /\ store[drv[q].key].status = "running"

\* The record of k is running and no call has it: none runs its body, and
\* none that read the record before is about to save its claim.
Orphaned(k) ==
  /\ k \in DOMAIN store
  /\ store[k].status = "running"
  /\ Bodies(k) = 0
  /\ \A p \in Procs : ~(drv[p].pc = "claim" /\ drv[p].key = k)
  /\ \A t \in DOMAIN tasks : ~(t.key = k /\ t.pc = "claim")

\* C26: a crash leaves the record running. Once the process that claimed a
\* record has stopped before writing the outcome, the record stays running
\* and its body is not invoked again, whatever calls of initAndMaybeRun,
\* timers and cron triggers follow in any process.
C26_CrashLeavesRunning ==
  [][\A k \in Keys :
       Orphaned(k) =>
         /\ store'[k].status = "running"
         /\ Bodies(k)' = 0
         /\ Orphaned(k)']_vars

\* A process was killed while it ran a body, and a later call of
\* initAndMaybeRun has resolved with the record still running.
C26_Witness ==
  \E p \in DOMAIN app, k \in Keys :
    /\ Orphaned(k)
    /\ drv[p].crashes = 1
    /\ drv[p].result = "resolved"

\* C27: revocable handles. Every armed timer is the one the registry holds
\* under its key's name, and every started cron job of a key is the one the
\* registry holds under its key's name.
C27_RevocableHandles ==
  \A p \in Procs, k \in Keys :
    /\ \A ref \in TimersOf(p, k) :
         k \in DOMAIN timeouts[p] /\ timeouts[p][k] = ref.id
    /\ cronJobs[p][k] <= IF k \in cronNames[p] THEN 1 ELSE 0

\* The step is one of the loop of process p, with scheduling support, on a
\* document of key k that has schedule.at and no schedule.cron.
AtDispatch(p, k) ==
  /\ drv[p].pc = "loop" /\ drv[p].snap # <<>>
  /\ drv'[p] # drv[p] /\ drv'[p].pc # "off"
  /\ Head(drv[p].snap).key = k
  /\ \E m \in DOMAIN app[p].units : MethodKey(app[p], m) = k
  /\ app[p].scheduling
  /\ Has(Head(drv[p].snap).schedule, "at")
  /\ ~Has(Head(drv[p].snap).schedule, "cron")

\* The step is the firing of the timer ref of process p.
TimerFireStep(p, ref) ==
  /\ ref \in timers[p] /\ ref \notin timers'[p]
  /\ ref.fireAt <= now
  /\ drv' = drv
  /\ Task(p, ref.key, "timer", "read") \in DOMAIN tasks'

\* C28: future one-off schedule. The dispatch of a unit whose schedule.at
\* is later than now arms one new timer, invokes no body and leaves the
\* records as they are; the firing of a timer starts one call of runOne
\* for its key, and the key's name is not in the registry after it.
C28_FutureAt ==
  [][\A p \in DOMAIN app :
       /\ \A k \in Keys :
            AtDispatch(p, k) /\ Head(drv[p].snap).schedule.at > now =>
              /\ timers[p] \subseteq timers'[p]
              /\ Cardinality(timers'[p]) = Cardinality(timers[p]) + 1
              /\ \A ref \in timers'[p] \ timers[p] : ref.key = k /\ ref.fireAt > now
              /\ tasks' = tasks
              /\ Bodies(k)' = Bodies(k)
              /\ store' = store
       /\ \A ref \in timers[p] :
            TimerFireStep(p, ref) =>
              /\ tasks' = AddTask(tasks, Task(p, ref.key, "timer", "read"))
              /\ ref.key \notin DOMAIN timeouts'[p]
              /\ store' = store]_vars

\* The timer armed for b has fired at its time, its runOne invoked the
\* body, and the registry holds no timeout for b.
C28_Witness ==
  \E p \in DOMAIN app :
    /\ Task(p, "b", "timer", "body") \in DOMAIN tasks
    /\ "b" \notin DOMAIN timeouts[p]
    /\ TimersOf(p, "b") = {}
    /\ store["b"].schedule.at = now

\* The step ends the runOne of key k that scheduleAt started without a timer.
VoidFinish(k) ==
  /\ \E t \in DOMAIN tasks :
       /\ t.key = k /\ t.kind = "void" /\ t.pc = "body"
       /\ t \notin DOMAIN tasks' \/ tasks'[t] < tasks[t]
       /\ drv'[t.proc].pc # "off"
  /\ drv' = drv

\* C29: overdue one-off schedule. The dispatch of a unit whose schedule.at
\* is not later than now arms no timer and starts runOne at once; when the
\* body that runOne invoked ends, the record is applied with lastRunAt set,
\* or failed with the error stored.
C29_OverdueAt ==
  [][/\ \A p \in DOMAIN app, k \in Keys :
          AtDispatch(p, k) /\ Head(drv[p].snap).schedule.at <= now =>
            /\ timers' = timers
            /\ timeouts' = timeouts
            /\ tasks' = AddTask(tasks, Task(p, k, "void", "read"))
            /\ drv'[p].pc = "loop"
            /\ drv'[p].snap = Tail(drv[p].snap)
     /\ \A k \in DOMAIN store :
          VoidFinish(k) =>
            \/ store'[k].status = "applied" /\ store'[k].lastRunAt = now
            \/ store'[k].status = "failed" /\ store'[k].error = "boom"]_vars

\* The overdue unit a was run at once by the first call and applied; no
\* timer was armed for it.
C29_Witness ==
  \E p \in DOMAIN app :
    /\ drv[p].inits = 1
    /\ "a" \in DOMAIN store
    /\ Has(store["a"].schedule, "at") /\ store["a"].schedule.at <= now
    /\ store["a"].status = "applied"
    /\ TimersOf(p, "a") = {}
    /\ "a" \notin DOMAIN timeouts[p]

\* The step is one of the loop of process p on a document whose key no
\* method of the process has.
VanishedDispatch(p) ==
  /\ drv[p].pc = "loop" /\ drv[p].snap # <<>>
  /\ drv'[p] # drv[p] /\ drv'[p].pc # "off"
  /\ ~\E m \in DOMAIN app[p].units : MethodKey(app[p], m) = Head(drv[p].snap).key

\* C30: vanished descriptor. A document whose key has no descriptor in the
\* process is skipped: the call goes on with the next document, and the
\* records, timers, cron jobs and runs are as before.
C30_VanishedDescriptor ==
  [][\A p \in DOMAIN app :
       VanishedDispatch(p) =>
         /\ drv'[p].pc = "loop"
         /\ drv'[p].result = "none"
         /\ drv'[p].snap = Tail(drv[p].snap)
         /\ <<store, tasks, timers, timeouts, cronJobs, cronNames, ran>>'
              = <<store, tasks, timers, timeouts, cronJobs, cronNames, ran>>]_vars

\* The loop of a process is at the record of a key it does not declare,
\* with the record of a key it declares still to come.
C30_Witness ==
  \E p \in DOMAIN app :
    /\ drv[p].pc = "loop"
    /\ Len(drv[p].snap) = 2
    /\ ~\E m \in DOMAIN app[p].units : MethodKey(app[p], m) = drv[p].snap[1].key
    /\ \E m \in DOMAIN app[p].units : MethodKey(app[p], m) = drv[p].snap[2].key
    /\ store[drv[p].snap[1].key].status = "pending"

(***************************************************************************)
(* C31..C38                                                                *)
(***************************************************************************)

\* The fields of a record that runOne and runRecurring keep.
LedgerFields == {"status", "error", "lastRunAt", "runCount"}

\* What a document holds besides them: its key, its _id and its metadata.
Metadata(doc) == [f \in DOMAIN doc \ LedgerFields |-> doc[f]]

\* The step is the save of the claim of key k, or the update that writes
\* the outcome of its body, in a call of runOne or runRecurring.
ClaimOrRelease(k) ==
  \/ \E p \in DOMAIN app :
       /\ drv[p].pc \in {"claim", "body"} /\ drv[p].key = k
       /\ drv'[p] # drv[p] /\ drv'[p].pc # "off"
  \/ \E t \in DOMAIN tasks :
       /\ t.pc \in {"claim", "body"} /\ t.key = k
       /\ t \notin DOMAIN tasks' \/ tasks'[t] < tasks[t]
       /\ drv'[t.proc].pc # "off"

BodySuccess(k) ==
  \/ \E p \in Procs :
       /\ drv[p].key = k
       /\ DriverFinishStep(p, "one", "ok") \/ DriverFinishStep(p, "rec", "ok")
  \/ /\ Bodies(k)' < Bodies(k)
     /\ \A p \in Procs : drv'[p] = drv[p]
     /\ store'[k].status # "failed"

\* C32: ledger fields. lastRunAt changes only in the step that ends a body
\* that returned. runCount never decreases; it increases by exactly 1 in
\* the step that ends a recurring-path body that returned, and is left as
\* it is by every other step (one-shot successes, failures, claims,
\* registrations).
C32_LedgerFields ==
  [][\A k \in DOMAIN store :
       /\ k \in DOMAIN store'
       /\ Pick(store'[k], {"lastRunAt"}) # Pick(store[k], {"lastRunAt"}) => BodySuccess(k)
       /\ RunCount(store'[k]) >= RunCount(store[k])
       /\ RunCount(store'[k]) =
            IF RecurringSuccess(k) THEN RunCount(store[k]) + 1 ELSE RunCount(store[k])]_vars

\* C33: the lock covers execution. While some process runs the body of key
\* k, the record of k is running.
C33_LockCoversExecution ==
  \A k \in Keys : Bodies(k) > 0 => k \in DOMAIN store /\ store[k].status = "running"

\* The record is that of a unit without schedule, which the loop runs inline.
InlineRecord(doc) == ~Has(doc.schedule, "cron") /\ ~Has(doc.schedule, "at")

\* The step is the one in which the loop of process p invokes the body of
\* the inline unit k, whose order is the one the cursor read.
InlineBodyStart(p, k) ==
  /\ drv[p].pc = "claim" /\ drv[p].key = k /\ drv[p].path = "one"
  /\ drv'[p].pc = "body"
  /\ Head(drv[p].snap).order = store[k].order

\* The body of key j is in progress in a process other than p.
RunsElsewhere(p, j) ==
  \/ \E q \in Procs \ {p} : drv[q].pc = "body" /\ drv[q].key = j
  \/ \E t \in DOMAIN tasks : t.proc # p /\ t.key = j /\ t.pc = "body"

\* C34: cross-process ordering. When the loop of a process invokes the body
\* of an inline unit, no inline unit of smaller order that the process
\* declares is running in another process, or still selected by find()
\* (pending, or failed and retried).
C34_CrossProcessOrdering ==
  [][\A p \in DOMAIN app, k \in Keys :
       InlineBodyStart(p, k) =>
         \A j \in DOMAIN store \ {k} :
           (/\ HasMethod(app[p], j)
            /\ InlineRecord(store[j])
            /\ store[j].order < store[k].order) =>
              /\ ~(store[j].status = "running" /\ RunsElsewhere(p, j))
              /\ ~Eligible(store[j])]_vars

\* C35: no early run. While the body that a timer's callback invoked runs,
\* the time is not earlier than the schedule.at its unit declares.
C35_NoEarlyRun ==
  \A t \in DOMAIN tasks :
    t.kind = "timer" /\ t.pc = "body" =>
      MetaOf(app[t.proc], t.key).schedule.at <= now

\* C36: quiescence on return. When a call of initAndMaybeRun has resolved or
\* rejected, no body is in progress in a call of runOne that it started
\* without awaiting it (for an overdue schedule.at unit, or without
\* scheduling support).
C36_QuiescenceOnReturn ==
  \A p \in DOMAIN app :
    drv[p].pc = "idle" /\ drv[p].result \in {"resolved", "rejected"} =>
      \A t \in DOMAIN tasks : ~(t.proc = p /\ t.kind = "void" /\ t.pc = "body")

\* The record is that of a unit with runOnce false, runOnInit true and no
\* schedule.
RepeatUnit(doc) == ~doc.runOnce /\ doc.runOnInit /\ InlineRecord(doc)

\* The runs of key k among those the current call of a process awaited.
RunsOf(log, k) == SelectSeq(log, LAMBDA e : e.key = k)

C38_ErrorMatchesStatus ==
  \A k \in DOMAIN store :
    (Has(store[k], "error") /\ store[k].error # "") <=> store[k].status = "failed"

====
